---- MODULE Spec2Model ----
(***************************************************************************)
(* A model of osm_to_sandbox.py: the element model, the sort keys, the two *)
(* renumbering passes, the changeset-scoped Uploader and the main pipeline *)
(* (fetch sandbox, delete in batches, fetch donor, create in batches).     *)
(*                                                                         *)
(* Python str values are sequences of code points, so that comparing two   *)
(* ids is the lexicographic comparison Python makes on str, and str(int)   *)
(* is a real conversion.                                                   *)
(***************************************************************************)
EXTENDS Integers, Sequences, FiniteSets, TLC

VARIABLES
    pc,                \* position of the running function
    bbox,              \* main's bbox argument (a list of numbers, unit 1/64 degree)
    sandbox_elements,  \* main: result of download_from_api (a keyed collection)
    elements,          \* main: result of download_from_overpass (a keyed collection)
    values,            \* delete_elements / upload_elements: the sorted working list
    max_el,            \* delete_elements / upload_elements: get_changeset_size result
    i,                 \* delete_elements / upload_elements: loop index (0-based)
    changeset,         \* Uploader.changeset of the open scope
    upload_result,     \* outcome of Uploader.upload inside the open scope
    id_map,            \* the id mapping returned by Uploader.upload
    next_changeset,    \* server: number of the next changeset it will open
    next_id,           \* server: the next id it will assign
    log,               \* history: the requests issued so far, in order
    submitted,         \* history: batches submitted by the running delete/upload loop
    orig,              \* history: the working list as sorted, before any renumbering
    assigned,          \* history: position in the working list -> id the server returned
    last_close,        \* history: outcome of the latest close request of the running loop
    endpoint           \* download_from_api alone: the server, box asked -> its response

vars == <<pc, bbox, sandbox_elements, elements, values, max_el, i, changeset,
          upload_result, id_map, next_changeset, next_id, log, submitted, orig,
          assigned, last_close, endpoint>>

(***************************************************************************)
(* Bounds of the model.                                                    *)
(***************************************************************************)
\* Longest element list given to the sorting, renumbering and filtering
\* functions alone.
MaxLen == 3
\* Longest node list / member list given to the renumbering functions alone.
MaxRefs == 2
\* Most elements the donor fetch returns in a run of main, and the longest node
\* list / member list among them.
MaxDonor == 2
MaxMembers == 1
\* Largest maximum_elements the capabilities response advertises.
MaxCap == 2
\* The first id the server assigns to a created element of each type.
FirstServerId == 9
\* Stand-in for the 10000 of main's confirmation threshold (len(sandbox_elements)
\* > 10000), scaled down so that a fetch can exceed it.
SafetyThreshold == 2
\* Stand-in for the 10000 get_changeset_size falls back to, scaled down likewise.
FallbackSize == 3
\* Most turns of read_auth's loop (logins typed) in a run of cli.
MaxLogins == 2

(***************************************************************************)
(* Python str and int.                                                     *)
(***************************************************************************)
\* Code points: ord('-') is 45 and ord('0') is 48.
RECURSIVE Digits(_)
\* The decimal digits of n >= 0, as code points.
Digits(n) == IF n < 10 THEN <<48 + n>> ELSE Append(Digits(n \div 10), 48 + (n % 10))

\* str(n) for an int n.
Str(n) == IF n < 0 THEN <<45>> \o Digits(0 - n) ELSE Digits(n)

RECURSIVE DigitsValue(_)
\* The number a str of decimal digits denotes.
DigitsValue(s) ==
    IF s = <<>> THEN 0 ELSE 10 * DigitsValue(SubSeq(s, 1, Len(s) - 1)) + (s[Len(s)] - 48)

\* int(s) for a str s that is a decimal number with an optional sign.
ParseInt(s) == IF s # <<>> /\ Head(s) = 45 THEN 0 - DigitsValue(Tail(s)) ELSE DigitsValue(s)

RECURSIVE StrLess(_, _)
\* a < b on two str: lexicographic by code point, a proper prefix is smaller.
StrLess(a, b) ==
    IF a = <<>> THEN b # <<>>
    ELSE IF b = <<>> THEN FALSE
    ELSE IF Head(a) # Head(b) THEN Head(a) < Head(b)
    ELSE StrLess(Tail(a), Tail(b))

\* A value of an id mapping: renumber_for_creating stores ints, Uploader.upload
\* stores the str it read from the response.
PyInt(n) == [t |-> "int", v |-> n]
PyString(s) == [t |-> "str", v |-> s]
\* str(x)
PyStr(x) == IF x.t = "int" THEN Str(x.v) ELSE x.v

(***************************************************************************)
(* OsmObject.                                                              *)
(***************************************************************************)
Types == {"node", "way", "relation"}

SORT_ORDER == [t \in Types |-> CASE t = "node" -> 0 [] t = "way" -> 1 [] t = "relation" -> 2]

\* The fields of an OsmObject that sorting, renumbering and uploading read:
\* type, id (a str), nodes (a list of str), members (a list of (type, ref, role)).
OsmObject(type, id, nodes, members) ==
    [type |-> type, id |-> id, nodes |-> nodes, members |-> members]

\* OsmObject.sort_key
sort_key(el) == <<SORT_ORDER[el.type], el.id>>

\* k1 < k2 on two sort keys (Python tuple comparison).
KeyLess(k1, k2) == k1[1] < k2[1] \/ (k1[1] = k2[1] /\ StrLess(k1[2], k2[2]))

\* An ordering that reverses the kind rank but not the order of ids within a kind.
BeforeRankReversedOnly(el, other, reverse) ==
    IF reverse
    THEN \/ sort_key(other)[1] < sort_key(el)[1]
         \/ sort_key(other)[1] = sort_key(el)[1] /\ StrLess(el.id, other.id)
    ELSE KeyLess(sort_key(el), sort_key(other))

\* el goes strictly before other in list.sort(key=sort_key, reverse=reverse).
Before(el, other, reverse) ==
    IF reverse THEN KeyLess(sort_key(other), sort_key(el))
    ELSE KeyLess(sort_key(el), sort_key(other))

\* values.sort(key=lambda el: el.sort_key, reverse=reverse): a stable sort.  The
\* k-th element of the result is the one with k - 1 elements ahead of it: those
\* strictly before it, and those of an equal key that come earlier in lst.
SortValues(lst, reverse) ==
    [k \in 1..Len(lst) |->
        lst[CHOOSE j \in 1..Len(lst) :
               k = 1 + Cardinality({m \in 1..Len(lst) :
                                      \/ Before(lst[m], lst[j], reverse)
                                      \/ (~Before(lst[j], lst[m], reverse) /\ m < j)})]]

(***************************************************************************)
(* renumber and renumber_for_creating.                                     *)
(***************************************************************************)
\* A lookup that never finds the key, so that no reference is rewritten.
MapGetStrNeverFound(map, key, default) == default

\* id_map.get(key, default), then str() of it; default is a str.
MapGetStr(map, key, default) ==
    IF key \in DOMAIN map THEN PyStr(map[key]) ELSE default

\* A renumber that rewrites ids and node lists but forgets the member lists.
RenumberOneWithoutMembers(v, map) ==
    [type |-> v.type,
     id |-> IF <<v.type, v.id>> \in DOMAIN map THEN PyStr(map[<<v.type, v.id>>]) ELSE v.id,
     nodes |-> [j \in 1..Len(v.nodes) |-> MapGetStr(map, <<"node", v.nodes[j]>>, v.nodes[j])],
     members |-> v.members]

\* The body of renumber's loop for one element v.
RenumberOne(v, map) ==
    [type |-> v.type,
     id |-> IF <<v.type, v.id>> \in DOMAIN map THEN PyStr(map[<<v.type, v.id>>]) ELSE v.id,
     nodes |-> [j \in 1..Len(v.nodes) |-> MapGetStr(map, <<"node", v.nodes[j]>>, v.nodes[j])],
     members |-> [j \in 1..Len(v.members) |->
                    <<v.members[j][1],
                      MapGetStr(map, <<v.members[j][1], v.members[j][2]>>, v.members[j][2]),
                      v.members[j][3]>>]]

\* renumber(values, id_map)
renumber(lst, map) == [k \in 1..Len(lst) |-> RenumberOne(lst[k], map)]

\* An id_map that gives every element the placeholder -1.
CreatingIdMapWithoutDecrement(lst) ==
    [key \in {<<lst[k].type, lst[k].id>> : k \in 1..Len(lst)} |-> PyInt(0 - 1)]

\* The id_map renumber_for_creating builds: the k-th element's (type, id) -> -k;
\* a key that occurs twice keeps the value stored last.
CreatingIdMap(lst) ==
    LET keys == {<<lst[k].type, lst[k].id>> : k \in 1..Len(lst)}
        last(key) == CHOOSE k \in 1..Len(lst) :
                        /\ <<lst[k].type, lst[k].id>> = key
                        /\ \A m \in 1..Len(lst) : <<lst[m].type, lst[m].id>> = key => m <= k
    IN  [key \in keys |-> PyInt(0 - last(key))]

\* renumber_for_creating(values)
renumber_for_creating(lst) == renumber(lst, CreatingIdMap(lst))

\* values = list(elements.values()) holds the objects of the collection, and
\* renumber assigns to their fields: the value of coll that was before[j] is
\* after[j], at its place in coll (the keys of the dict are not touched).
Shared(coll, before, after) ==
    [k \in 1..Len(coll) |-> after[CHOOSE j \in 1..Len(before) : before[j] = coll[k]]]

(***************************************************************************)
(* Python list slicing and range().                                        *)
(***************************************************************************)
Min(a, b) == IF a < b THEN a ELSE b

\* lst[a:b] for 0 <= a <= b (0-based, b exclusive, clipped to the list).
Slice(lst, a, b) == SubSeq(lst, a + 1, Min(b, Len(lst)))

RECURSIVE Flatten(_)
\* The concatenation of a list of lists.
Flatten(lists) == IF lists = <<>> THEN <<>> ELSE Head(lists) \o Flatten(Tail(lists))

Reverse(lst) == [k \in 1..Len(lst) |-> lst[Len(lst) + 1 - k]]

RECURSIVE LoopBatches(_, _, _)
\* The slices values[i:i + max_el] taken by "for i in range(0, len(values), max_el)"
\* from index i on, for max_el >= 1.
LoopBatches(lst, from, step) ==
    IF from >= Len(lst) THEN <<>>
    ELSE <<Slice(lst, from, from + step)>> \o LoopBatches(lst, from + step, step)

(***************************************************************************)
(* The element collections the fetches return.  A collection is a dict     *)
(* keyed by sid = type + id; it is kept as the list of its values in       *)
(* insertion order, with distinct (type, id).                              *)
(***************************************************************************)
\* Ids as the servers send them: decimal str of positive numbers.  "10" < "2"
\* as str although 2 < 10 as numbers.
IdNums == {2, 10}
Ids == {Str(n) : n \in IdNums}
Keys == Types \X Ids

NodeIdsOf(S) == {k[2] : k \in {x \in S : x[1] = "node"}}

\* Lists of length lo..hi over S.
ListsOver(S, lo, hi) == UNION {[1..m -> S] : m \in lo..hi}

\* The element with key k of a collection with key set S: a way lists one node
\* of the collection (when it has one), a relation has no members, unless k is the
\* element `carrier`, which holds the references refs.
ElementOf(k, S, carrier, refs) ==
    LET ns == NodeIdsOf(S)
        first == CHOOSE n \in ns : \A m \in ns : m = n \/ StrLess(n, m)
    IN  IF k = carrier /\ k[1] = "way" THEN OsmObject(k[1], k[2], refs, <<>>)
        ELSE IF k = carrier /\ k[1] = "relation"
             THEN OsmObject(k[1], k[2], <<>>, [j \in 1..Len(refs) |-> <<refs[j][1], refs[j][2], "">>])
        ELSE IF k[1] = "way" /\ ns # {} THEN OsmObject(k[1], k[2], <<first>>, <<>>)
        ELSE OsmObject(k[1], k[2], <<>>, <<>>)

RECURSIVE ListOfSet(_)
\* Some list of the elements of a finite set.
ListOfSet(S) == IF S = {} THEN <<>> ELSE LET x == CHOOSE y \in S : TRUE
                                         IN  <<x>> \o ListOfSet(S \ {x})

\* The collection with key set S, inserted in the order `descending`.
CollectionOf(S, carrier, refs, descending) ==
    SortValues([j \in 1..Cardinality(S) |-> ElementOf(ListOfSet(S)[j], S, carrier, refs)],
               descending)

\* No element that carries references of its own choosing.
NoCarrier == <<"none", <<>>>>

\* Key sets of at most n elements in which every way has a node to refer to.
ClosedKeySets(n) ==
    {S \in SUBSET Keys : Cardinality(S) <= n /\ ((\E k \in S : k[1] = "way") => NodeIdsOf(S) # {})}

\* Collections of at most n elements whose references all resolve inside the
\* collection, with reference lists of at most r entries.
ClosedCollections(n, r, descending) ==
    UNION {
        {CollectionOf(S, NoCarrier, <<>>, descending)}
        \cup UNION {{CollectionOf(S, c, refs, descending) : refs \in ListsOver(NodeIdsOf(S), 1, r)}
                    : c \in {k \in S : k[1] = "way"}}
        \cup UNION {{CollectionOf(S, c, refs, descending) : refs \in ListsOver(S, 1, r)}
                    : c \in {k \in S : k[1] = "relation"}}
        : S \in ClosedKeySets(n)}

\* Lists of at most n elements with distinct (type, id), sorted as upload_elements
\* sorts them, in which one element may refer to anything, present or not.
OpenLists(n, r) ==
    UNION {
        {CollectionOf(S, NoCarrier, <<>>, FALSE)}
        \cup UNION {{CollectionOf(S, c, refs, FALSE) : refs \in ListsOver(Ids, 0, r)}
                    : c \in {k \in S : k[1] = "way"}}
        \cup UNION {{CollectionOf(S, c, refs, FALSE) : refs \in ListsOver(Keys, 0, r)}
                    : c \in {k \in S : k[1] = "relation"}}
        : S \in {T \in SUBSET Keys : Cardinality(T) <= n}}

RECURSIVE InsertionOrders(_)
\* All lists that hold each element of S once.
InsertionOrders(S) ==
    IF S = {} THEN {<<>>}
    ELSE UNION {{<<x>> \o p : p \in InsertionOrders(S \ {x})} : x \in S}

\* Collections of at most n elements in every insertion order.
OrderedCollections(n) ==
    UNION {{[j \in 1..Len(p) |-> ElementOf(p[j], S, NoCarrier, <<>>)] : p \in InsertionOrders(S)}
           : S \in {T \in SUBSET Keys : Cardinality(T) <= n}}

(***************************************************************************)
(* api_request and the servers.  A request ends in one of three ways: the  *)
(* response has status 200 ("ok"), it has another status, which            *)
(* api_request raises as HTTPError ("http"), or requests.request itself    *)
(* raises, which is no HTTPError ("net").                                  *)
(***************************************************************************)
Outcomes == {"ok", "http", "net"}

\* A response: its outcome, its status code and what its body holds.
Response(out, code, body) == [out |-> out, code |-> code, body |-> body]

\* One request of the run (or the prompt), as the history keeps it: arg is the
\* changeset id of an open, upload or close, the answer typed at the prompt, the
\* maximum_elements attribute of a capabilities response and the elements of an
\* interpreter response.
\* The outcome of a close request is kept in last_close alone.
Ev(op, server, kind, arg, out) ==
    [op |-> op, server |-> server, kind |-> kind, arg |-> arg, out |-> out]

\* The capabilities responses: a failure, or a document in which the api element,
\* the changesets element and the maximum_elements attribute may each be absent.
Capabilities(out, api, changesets, has_max, max) ==
    [out |-> out, api |-> api, changesets |-> changesets, has_max |-> has_max, max |-> max]

CapabilitiesResponses ==
    {Capabilities("http", FALSE, FALSE, FALSE, <<>>),
     Capabilities("net", FALSE, FALSE, FALSE, <<>>),
     Capabilities("ok", FALSE, FALSE, FALSE, <<>>),
     Capabilities("ok", TRUE, FALSE, FALSE, <<>>),
     Capabilities("ok", TRUE, TRUE, FALSE, <<>>)}
    \cup {Capabilities("ok", TRUE, TRUE, TRUE, Str(c)) : c \in 0..MaxCap}

\* The maximum_elements attribute a capabilities response carries: a str, or
\* nothing when the response failed or does not hold the attribute.
Advertised(r) ==
    IF r.out = "ok" /\ r.api /\ r.changesets /\ r.has_max THEN r.max ELSE <<>>

\* get_changeset_size: the request raises; data.find(...) is None and the
\* AttributeError is caught (the fallback); get() is None and int(None) raises
\* TypeError, which is not caught; or int() of the attribute.
get_changeset_size(r) ==
    IF r.out # "ok" THEN [raised |-> TRUE, size |-> 0]
    ELSE IF ~r.api \/ ~r.changesets THEN [raised |-> FALSE, size |-> FallbackSize]
    ELSE IF ~r.has_max THEN [raised |-> TRUE, size |-> 0]
    ELSE [raised |-> FALSE, size |-> ParseInt(r.max)]

(***************************************************************************)
(* Keyed collections (dict sid -> OsmObject), kept as the list of values.  *)
(***************************************************************************)
SameKey(a, b) == a.type = b.type /\ a.id = b.id

\* d[el.sid] = el: a key already present keeps its place and takes the new value.
DictPut(d, el) ==
    IF \E k \in 1..Len(d) : SameKey(d[k], el)
    THEN [k \in 1..Len(d) |-> IF SameKey(d[k], el) THEN el ELSE d[k]]
    ELSE Append(d, el)

RECURSIVE DictUpdate(_, _)
\* d.update(more), and {obj.sid: obj for obj in lst} as DictUpdate(<<>>, lst).
DictUpdate(d, more) ==
    IF more = <<>> THEN d ELSE DictUpdate(DictPut(d, Head(more)), Tail(more))

(***************************************************************************)
(* split_bbox and download_from_api.  A box is [minlon, minlat, maxlon,    *)
(* maxlat] in units of 1/64 degree; the boxes of the model have even sums, *)
(* so the halves are exact as they are in floating point.                  *)
(***************************************************************************)
\* A split that returns the third quadrant twice and the fourth never.
split_bboxThirdTwice(b) ==
    LET half_x == (b[1] + b[3]) \div 2
        half_y == (b[2] + b[4]) \div 2
    IN  << <<b[1], b[2], half_x, half_y>>,
           <<b[1], half_y, half_x, b[4]>>,
           <<half_x, b[2], b[3], half_y>>,
           <<half_x, b[2], b[3], half_y>> >>

split_bbox(b) ==
    LET half_x == (b[1] + b[3]) \div 2
        half_y == (b[2] + b[4]) \div 2
    IN  << <<b[1], b[2], half_x, half_y>>,
           <<b[1], half_y, half_x, b[4]>>,
           <<half_x, b[2], b[3], half_y>>,
           <<half_x, half_y, b[3], b[4]>> >>

RECURSIVE download_from_api(_, _)
RECURSIVE DownloadParts(_, _, _, _)

\* The loop "for part in split_bbox(bbox)": data.update(download_from_api(part)).
\* A sub-fetch that raises ends the loop; one that returns None makes update raise.
DownloadParts(parts, data, requests, server) ==
    IF parts = <<>> THEN [kind |-> "data", data |-> data, requests |-> requests]
    ELSE LET more == download_from_api(Head(parts), server)
         IN  IF more.kind = "data"
             THEN DownloadParts(Tail(parts), DictUpdate(data, more.data),
                                requests \o more.requests, server)
             ELSE [kind |-> "raise", data |-> <<>>, requests |-> requests \o more.requests]

\* download_from_api(bbox, endpoint), the server being a function from the box
\* asked for to its response.  The result is the collection ("data"), an
\* exception ("raise") or None ("none": a status other than 200, 400 and 509 falls
\* off the end of the function).
download_from_api(box, server) ==
    LET r == server[box]
    IN  IF r.out = "ok"
        THEN [kind |-> "data", data |-> DictUpdate(<<>>, r.body), requests |-> <<box>>]
        ELSE IF r.out = "net"
        THEN [kind |-> "raise", data |-> <<>>, requests |-> <<box>>]
        ELSE IF r.code = 400
        THEN DownloadParts(split_bbox(box), <<>>, <<box>>, server)
        ELSE IF r.code = 509
        THEN [kind |-> "raise", data |-> <<>>, requests |-> <<box>>]
        ELSE [kind |-> "none", data |-> <<>>, requests |-> <<box>>]

\* The boxes main is called with: a valid one, the same with min and max swapped,
\* one that is too big (64 > 40.96 square units = 0.01 square degrees) and a list
\* of three numbers.
Boxes == {<<0, 0, 4, 4>>, <<4, 4, 0, 0>>, <<0, 0, 8, 8>>, <<0, 0, 4>>}

\* Every box a fetch of a valid box can ask for, down to one split.
AskedBoxes == {<<0, 0, 4, 4>>} \cup {split_bbox(<<0, 0, 4, 4>>)[q] : q \in 1..4}

\* A server that answers every box with the collection c.
DirectServer(c) == [b \in AskedBoxes |-> Response("ok", 200, c)]

\* A server that finds the first box too large and answers its q-th quadrant
\* with the elements q, q + 4, ... of c.
SplitServer(c) ==
    [b \in AskedBoxes |->
        IF b = <<0, 0, 4, 4>> THEN Response("http", 400, <<>>)
        ELSE LET q == CHOOSE n \in 1..4 : split_bbox(<<0, 0, 4, 4>>)[n] = b
                 at == {k \in 1..Len(c) : k % 4 = q % 4}
             IN  Response("ok", 200, [j \in 1..Cardinality(at) |->
                     c[CHOOSE k \in at : Cardinality({m \in at : m < k}) = j - 1]])]

\* A server that answers every box with the given failure.
FailingServer(out, code) == [b \in AskedBoxes |-> Response(out, code, <<>>)]

\* The elements the sandbox may hold in the box, in the order in which it is
\* filled: with two of them a node and a relation, with three two nodes whose
\* ids compare differently as str and as int, then a way on one of the nodes.
SandboxFill ==
    <<<<"node", Str(2)>>, <<"relation", Str(2)>>, <<"node", Str(10)>>, <<"way", Str(2)>>>>

\* What the sandbox holds in the box: nothing, or the first elements of
\* SandboxFill, up to one more than the threshold of the confirmation.
SandboxCollections ==
    {CollectionOf({SandboxFill[k] : k \in 1..n}, NoCarrier, <<>>, FALSE)
     : n \in {m \in 0..Len(SandboxFill) : m <= SafetyThreshold + 1}}

\* How the sandbox answers the map requests.

SandboxServers ==
    {DirectServer(c) : c \in SandboxCollections}
    \cup {SplitServer(c) : c \in SandboxCollections}
    \cup {FailingServer("http", 509), FailingServer("http", 500), FailingServer("net", 0)}

(***************************************************************************)
(* download_from_overpass.                                                 *)
(***************************************************************************)
\* The interpreter responses: a collection, a failure that names rate_limited in
\* its text, another failure, or requests.get raising.
Overpass(out, rate_limited, body) == [out |-> out, rate_limited |-> rate_limited, body |-> body]

\* download_from_overpass: the collection, or an exception.
download_from_overpass(r) ==
    IF r.out = "ok" THEN [kind |-> "data", data |-> DictUpdate(<<>>, r.body)]
    ELSE [kind |-> "raise", data |-> <<>>]

\* What the donor holds in the box.
DonorCollections == ClosedCollections(MaxDonor, MaxMembers, TRUE)

OverpassResponses ==
    {Overpass("ok", FALSE, c) : c \in DonorCollections}
    \cup {Overpass("http", TRUE, <<>>), Overpass("http", FALSE, <<>>), Overpass("net", FALSE, <<>>)}

(***************************************************************************)
(* The operator's answers to the confirmation prompt.                      *)
(***************************************************************************)
\* "yes", "Yes", "no" and "" as code points.
Answers == {<<121, 101, 115>>, <<89, 101, 115>>, <<110, 111>>, <<>>}

\* str.lower() on ASCII.
Lower(s) == [k \in 1..Len(s) |-> IF s[k] >= 65 /\ s[k] <= 90 THEN s[k] + 32 ELSE s[k]]

(***************************************************************************)
(* The server's answer to an upload of a create batch: each element gets   *)
(* the next id of its type.                                                *)
(***************************************************************************)
\* The number of elements of type t among the first n of batch.
CountBefore(batch, n, t) == Cardinality({m \in 1..n : batch[m].type = t})

\* The id the server assigns to the p-th element of batch.
NewIdOf(batch, p, nid) == Str(nid[batch[p].type] + CountBefore(batch, p - 1, batch[p].type))

\* Uploader.upload's id_map, built from the diffResult of the server:
\* (type, old_id) -> new_id, both as the str read from the response.
UploadIdMap(batch, nid) ==
    [key \in {<<batch[p].type, batch[p].id>> : p \in 1..Len(batch)} |->
        PyString(NewIdOf(batch,
                         CHOOSE p \in 1..Len(batch) :
                             /\ <<batch[p].type, batch[p].id>> = key
                             /\ \A m \in 1..Len(batch) :
                                   <<batch[m].type, batch[m].id>> = key => m <= p,
                         nid))]

(***************************************************************************)
(* Values of the variables a specification does not use.                   *)
(***************************************************************************)
NoMap == [k \in {} |-> PyInt(0)]
NoIds == [t \in Types |-> FirstServerId]

(***************************************************************************)
(* renumber_for_creating alone, on every list of the bounds.               *)
(***************************************************************************)
InitRenumber ==
    /\ pc = "renumber_input"
    /\ values \in OpenLists(MaxLen, MaxRefs)
    /\ orig = values
    /\ bbox = <<>> /\ sandbox_elements = <<>> /\ elements = <<>> /\ max_el = 0 /\ i = 0
    /\ changeset = <<>> /\ upload_result = "none" /\ id_map = NoMap /\ next_changeset = 1
    /\ next_id = NoIds /\ log = <<>> /\ submitted = <<>> /\ assigned = <<>>
    /\ last_close = "none" /\ endpoint = <<>>

\* renumber_for_creating(values)
RenumberForCreating ==
    /\ pc = "renumber_input"
    /\ values' = renumber_for_creating(values)
    /\ pc' = "renumber_done"
    /\ UNCHANGED <<endpoint, bbox, sandbox_elements, elements, max_el, i, changeset, upload_result,
                   id_map, next_changeset, next_id, log, submitted, orig, assigned,
                   last_close>>

NextRenumber == RenumberForCreating

SpecRenumber == InitRenumber /\ [][NextRenumber]_vars

(***************************************************************************)
(* The submission orders of delete_elements and upload_elements on the     *)
(* same collection, every request succeeding.                              *)
(***************************************************************************)
InitOrder ==
    /\ pc = "order_input"
    /\ elements \in OrderedCollections(MaxLen)
    /\ max_el \in 1..MaxCap
    /\ bbox = <<>> /\ sandbox_elements = <<>> /\ values = <<>> /\ i = 0
    /\ changeset = <<>> /\ upload_result = "none" /\ id_map = NoMap /\ next_changeset = 1
    /\ next_id = NoIds /\ log = <<>> /\ submitted = <<>> /\ orig = <<>> /\ assigned = <<>>
    /\ last_close = "none" /\ endpoint = <<>>

\* delete_elements: the batches it hands to upload_delete, in order, each in a
\* changeset of its own.  Nothing is assigned to the elements.
OrderDelete ==
    /\ pc = "order_input"
    /\ submitted' = LoopBatches(SortValues(elements, TRUE), 0, max_el)
    /\ next_changeset' = next_changeset + Len(submitted')
    /\ pc' = "order_deleted"
    /\ UNCHANGED <<endpoint, bbox, sandbox_elements, elements, values, max_el, i, changeset,
                   upload_result, id_map, next_id, log, orig, assigned, last_close>>

RECURSIVE UploadLoop(_, _, _, _)
\* The loop of upload_elements from index `from` on: upload_create(values[i:i +
\* max_el]) returns the ids the server assigns (nid holds the next id of each
\* type), renumber(values, id_map) writes them into the whole list.  The result
\* is the list after the loop, the batches handed to upload_create, the server's
\* next ids and the last id_map.
UploadLoop(lst, from, step, nid) ==
    IF from >= Len(lst)
    THEN [values |-> lst, batches |-> <<>>, next_id |-> nid, id_map |-> NoMap]
    ELSE LET batch == Slice(lst, from, from + step)
             map == UploadIdMap(batch, nid)
             rest == UploadLoop(renumber(lst, map), from + step, step,
                                [t \in Types |-> nid[t] + CountBefore(batch, Len(batch), t)])
         IN  [values |-> rest.values,
              batches |-> <<batch>> \o rest.batches,
              next_id |-> rest.next_id,
              id_map |-> IF rest.batches = <<>> THEN map ELSE rest.id_map]

\* upload_elements: the sorted list (orig is what it held before any renumbering),
\* renumber_for_creating, then the loop.  values ends with the ids the server
\* returned, and so do the objects of elements, which values shares.  submitted
\* goes on with the batches handed to upload_create.
OrderUpload ==
    /\ pc = "order_deleted"
    /\ \E sorted \in {SortValues(elements, FALSE)} :
       \E loop \in {UploadLoop(renumber_for_creating(sorted), 0, max_el, next_id)} :
          /\ orig' = sorted
          /\ values' = loop.values
          /\ elements' = Shared(elements, sorted, loop.values)
          /\ submitted' = submitted \o loop.batches
          /\ next_id' = loop.next_id
          /\ id_map' = loop.id_map
          /\ next_changeset' = next_changeset + Len(loop.batches)
          /\ assigned' = [k \in 1..Len(sorted) |-> loop.values[k].id]
          /\ i' = IF loop.batches = <<>> THEN i ELSE max_el * (Len(loop.batches) - 1)
    /\ pc' = "order_done"
    /\ UNCHANGED <<endpoint, bbox, sandbox_elements, max_el, changeset, upload_result, log,
                   last_close>>

NextOrder == OrderDelete \/ OrderUpload

SpecOrder == InitOrder /\ [][NextOrder]_vars

(***************************************************************************)
(* main.  Each action is one blocking call (a request, or the prompt) and  *)
(* the code that follows it up to the next one.  pc names the call the     *)
(* run is about to make; "error" is an exception leaving main, "exit0" is  *)
(* sys.exit(0), "no_elements" and "done" are the two normal returns.       *)
(***************************************************************************)
Init ==
    /\ pc = "main"
    /\ bbox \in Boxes
    /\ sandbox_elements = <<>> /\ elements = <<>> /\ values = <<>> /\ max_el = 0 /\ i = 0
    /\ changeset = <<>> /\ upload_result = "none" /\ id_map = NoMap /\ next_changeset = 1
    /\ next_id = NoIds /\ log = <<>> /\ submitted = <<>> /\ orig = <<>> /\ assigned = <<>>
    /\ last_close = "none" /\ endpoint = <<>>

\* The bbox list after the two swaps of main.
Normalized(b) ==
    LET x == IF b[1] > b[3] THEN <<b[3], b[2], b[1], b[4]>> ELSE b
    IN  IF x[2] > x[4] THEN <<x[1], x[4], x[3], x[2]>> ELSE x

\* (bbox[2] - bbox[0]) * (bbox[3] - bbox[1]) > 0.01, the sides in 1/64 degree.
TooBig(b) == (b[3] - b[1]) * (b[4] - b[2]) * 100 > 4096

\* main: the validation of bbox.
Validate ==
    /\ pc = "main"
    /\ IF Len(bbox) # 4
       THEN pc' = "error" /\ bbox' = bbox
       ELSE /\ bbox' = Normalized(bbox)
            /\ pc' = IF TooBig(Normalized(bbox)) THEN "error" ELSE "fetch_sandbox"
    /\ UNCHANGED <<endpoint, sandbox_elements, elements, values, max_el, i, changeset,
                   upload_result, id_map, next_changeset, next_id, log, submitted, orig,
                   assigned, last_close>>

\* len(sandbox_elements) > 10000, main's condition for asking.
NeedsConfirmationInclusive(coll) == Len(coll) >= SafetyThreshold
NeedsConfirmation(coll) == Len(coll) > SafetyThreshold

\* Where main goes once the donor collection is fetched: "if not elements: return".
AfterDonorAlwaysUploads(coll) == "upload_elements"
AfterDonor(coll) == IF coll = <<>> THEN "no_elements" ELSE "upload_elements"

\* Where main goes once the sandbox collection is fetched and confirmed.
AfterConfirm(coll) == IF coll = <<>> THEN "fetch_donor" ELSE "delete_elements"

\* main: sandbox_elements = download_from_api(bbox, SANDBOX_API) and the size check.
\* A result of None makes len() raise.
FetchSandbox ==
    /\ pc = "fetch_sandbox"
    /\ \E server \in SandboxServers :
          LET res == download_from_api(bbox, server)
          IN  /\ log' = Append(log, Ev("map", "SANDBOX_API", "-", <<>>, res.kind))
              /\ IF res.kind # "data"
                 THEN pc' = "error" /\ sandbox_elements' = sandbox_elements
                 ELSE /\ sandbox_elements' = res.data
                      /\ pc' = IF NeedsConfirmation(res.data) THEN "confirm"
                               ELSE AfterConfirm(res.data)
    /\ UNCHANGED <<endpoint, bbox, elements, values, max_el, i, changeset, upload_result, id_map,
                   next_changeset, next_id, submitted, orig, assigned, last_close>>

\* main: answer = input(); sys.exit(0) unless answer.lower() == 'yes'.
Confirm ==
    /\ pc = "confirm"
    /\ \E answer \in Answers :
          LET yes == Lower(answer) = <<121, 101, 115>>
          IN  /\ log' = Append(log, Ev("input", "-", "-", answer, "-"))
              /\ pc' = IF yes THEN AfterConfirm(sandbox_elements) ELSE "exit0"
    /\ UNCHANGED <<endpoint, bbox, sandbox_elements, elements, values, max_el, i, changeset,
                   upload_result, id_map, next_changeset, next_id, submitted, orig,
                   assigned, last_close>>

\* Where a loop "for i in range(0, n, step)" goes first: range() raises ValueError
\* for a step of 0 and is empty for n = 0.
LoopEntry(n, step, first, after) ==
    IF step = 0 THEN "error" ELSE IF n = 0 \/ step < 0 THEN after ELSE first

\* delete_elements up to the first Uploader.__enter__: get_changeset_size(SANDBOX_API),
\* the descending sort, range().
DeleteCaps ==
    /\ pc = "delete_elements"
    /\ \E r \in CapabilitiesResponses :
          LET size == get_changeset_size(r)
          IN  /\ log' = Append(log, Ev("capabilities", "SANDBOX_API", "-", Advertised(r), r.out))
              /\ IF size.raised
                 THEN pc' = "error" /\ UNCHANGED <<max_el, values>>
                 ELSE /\ max_el' = size.size
                      /\ values' = SortValues(sandbox_elements, TRUE)
                      /\ pc' = LoopEntry(Len(sandbox_elements), size.size,
                                         "delete_open", "fetch_donor")
    /\ i' = 0
    /\ UNCHANGED <<endpoint, bbox, sandbox_elements, elements, changeset, upload_result, id_map,
                   next_changeset, next_id, submitted, orig, assigned, last_close>>

\* Uploader.__enter__: PUT changeset/create.  Any failure leaves the with statement
\* before its body and without __exit__.
UploaderEnter(kind, body_pc) ==
    \E out \in Outcomes :
        /\ log' = Append(log, Ev("open", "SANDBOX_API", kind,
                                 IF out = "ok" THEN Str(next_changeset) ELSE <<>>, out))
        /\ IF out = "ok"
           THEN /\ changeset' = Str(next_changeset)
                /\ next_changeset' = next_changeset + 1
                /\ pc' = body_pc
           ELSE /\ pc' = "error"
                /\ UNCHANGED <<changeset, next_changeset>>

\* An __exit__ that closes the changeset only when the body raised nothing.
UploaderExitWithoutFinally(kind, proceed) ==
    \E out \in Outcomes :
        /\ log' = IF upload_result = "ok"
                  THEN Append(log, Ev("close", "SANDBOX_API", kind, changeset, "-"))
                  ELSE log
        /\ last_close' = out
        /\ pc' = IF out = "net" \/ upload_result # "ok" THEN "error" ELSE proceed
        /\ changeset' = <<>>
        /\ upload_result' = "none"

\* An __exit__ that returns True, so that the exception of the body is dropped.
UploaderExitSwallowing(kind, proceed) ==
    \E out \in Outcomes :
        /\ log' = Append(log, Ev("close", "SANDBOX_API", kind, changeset, "-"))
        /\ last_close' = out
        /\ pc' = IF out = "net" THEN "error" ELSE proceed
        /\ changeset' = <<>>
        /\ upload_result' = "none"

\* Uploader.__exit__: PUT changeset/{id}/close.  An HTTPError is printed; then the
\* exception of the body, if any, goes on.  Any other exception leaves __exit__.
\* proceed is where the caller goes when neither happens.
UploaderExit(kind, proceed) ==
    \E out \in Outcomes :
        /\ log' = Append(log, Ev("close", "SANDBOX_API", kind, changeset, "-"))
        /\ last_close' = out
        /\ pc' = IF out = "net" \/ upload_result # "ok" THEN "error" ELSE proceed
        /\ changeset' = <<>>
        /\ upload_result' = "none"

\* A loop that is left after its first batch.
LoopNextLeavesAfterFirst(first, after) == after

\* A loop that takes one more turn when the batches end exactly at the list's end.
LoopNextInclusive(first, after) == IF i + max_el <= Len(values) THEN first ELSE after

\* Where the loop over the batches goes after the batch at index i.
LoopNext(first, after) == IF i + max_el < Len(values) THEN first ELSE after

\* upload_delete: with Uploader(...) as u.
DeleteOpen ==
    /\ pc = "delete_open"
    /\ UploaderEnter("delete", "delete_upload")
    /\ UNCHANGED <<endpoint, bbox, sandbox_elements, elements, values, max_el, i, upload_result,
                   id_map, next_id, submitted, orig, assigned, last_close>>

\* upload_delete: the delete payload of values[i:i + max_el] and u.upload(root),
\* whose result is dropped.
DeleteUpload ==
    /\ pc = "delete_upload"
    /\ \E out \in Outcomes :
          /\ log' = Append(log, Ev("upload", "SANDBOX_API", "delete", changeset, out))
          /\ upload_result' = out
    /\ submitted' = Append(submitted, Slice(values, i, i + max_el))
    /\ pc' = "delete_close"
    /\ UNCHANGED <<endpoint, bbox, sandbox_elements, elements, values, max_el, i, changeset, id_map,
                   next_changeset, next_id, orig, assigned, last_close>>

\* upload_delete: leaving the with statement, and the next turn of the loop of
\* delete_elements.
DeleteClose ==
    /\ pc = "delete_close"
    /\ UploaderExit("delete", LoopNext("delete_open", "fetch_donor"))
    /\ i' = IF pc' = "error" THEN i ELSE i + max_el
    /\ UNCHANGED <<endpoint, bbox, sandbox_elements, elements, values, max_el, id_map,
                   next_changeset, next_id, submitted, orig, assigned>>

\* main: elements = download_from_overpass(...) and the emptiness check.
\* sandbox_elements, a local of main, stays as it is; the locals of
\* delete_elements (values, max_el, i) ended with its frame.
FetchDonor ==
    /\ pc = "fetch_donor"
    /\ \E r \in OverpassResponses :
          LET res == download_from_overpass(r)
          IN  /\ log' = log \o <<Ev("interpreter", "OVERPASS_API", "-", r.body, r.out)>>
                            \o (IF r.out = "http" /\ r.rate_limited
                                THEN <<Ev("status", "OVERPASS_API", "-", <<>>, "-")>>
                                ELSE <<>>)
              /\ IF res.kind # "data"
                 THEN pc' = "error" /\ elements' = elements
                 ELSE /\ elements' = res.data
                      /\ pc' = AfterDonor(res.data)
    /\ values' = <<>>
    /\ max_el' = 0
    /\ i' = 0
    /\ submitted' = <<>>
    /\ last_close' = "none"
    /\ UNCHANGED <<endpoint, bbox, sandbox_elements, changeset, upload_result, id_map, next_changeset, next_id, orig,
                   assigned>>

\* upload_elements up to the first Uploader.__enter__: get_changeset_size(OSM_API),
\* the ascending sort, renumber_for_creating (which rewrites the objects of
\* elements too), range().
CreateCaps ==
    /\ pc = "upload_elements"
    /\ \E r \in CapabilitiesResponses :
          \E sorted \in {SortValues(elements, FALSE)} :
          LET size == get_changeset_size(r)
          IN  /\ log' = Append(log, Ev("capabilities", "OSM_API", "-", Advertised(r), r.out))
              /\ IF size.raised
                 THEN pc' = "error" /\ UNCHANGED <<elements, max_el, values, orig, assigned>>
                 ELSE /\ max_el' = size.size
                      /\ values' = renumber_for_creating(sorted)
                      /\ elements' = Shared(elements, sorted, values')
                      /\ orig' = sorted
                      /\ assigned' = [k \in 1..Len(sorted) |-> <<>>]
                      /\ pc' = LoopEntry(Len(sorted), size.size, "create_open", "done")
    /\ i' = 0
    /\ submitted' = <<>>
    /\ UNCHANGED <<endpoint, bbox, sandbox_elements, changeset, upload_result, id_map,
                   next_changeset, next_id, last_close>>

\* upload_create: with Uploader(...) as u.
CreateOpen ==
    /\ pc = "create_open"
    /\ UploaderEnter("create", "create_upload")
    /\ UNCHANGED <<endpoint, bbox, sandbox_elements, elements, values, max_el, i, upload_result,
                   id_map, next_id, submitted, orig, assigned, last_close>>

\* upload_create: the create payload of values[i:i + max_el] and u.upload(root).
\* A successful upload yields the id mapping of the server's diffResult.
CreateUpload ==
    /\ pc = "create_upload"
    /\ \E out \in Outcomes :
          LET batch == Slice(values, i, i + max_el)
          IN  /\ log' = Append(log, Ev("upload", "SANDBOX_API", "create", changeset, out))
              /\ upload_result' = out
              /\ submitted' = Append(submitted, batch)
              /\ IF out = "ok"
                 THEN /\ id_map' = UploadIdMap(batch, next_id)
                      /\ next_id' = [t \in Types |->
                                        next_id[t] + CountBefore(batch, Len(batch), t)]
                      /\ assigned' = [k \in 1..Len(values) |->
                                        IF k > i /\ k <= i + Len(batch)
                                        THEN NewIdOf(batch, k - i, next_id)
                                        ELSE assigned[k]]
                 ELSE /\ id_map' = NoMap
                      /\ UNCHANGED <<next_id, assigned>>
    /\ pc' = "create_close"
    /\ UNCHANGED <<endpoint, bbox, sandbox_elements, elements, values, max_el, i, changeset,
                   next_changeset, orig, last_close>>

\* upload_create: leaving the with statement and returning the id mapping; then
\* renumber(values, id_map) and the next turn of the loop of upload_elements.
CreateClose ==
    /\ pc = "create_close"
    /\ UploaderExit("create", LoopNext("create_open", "done"))
    /\ IF pc' = "error"
       THEN UNCHANGED <<elements, values, i>>
       ELSE /\ values' = renumber(values, id_map)
            /\ elements' = Shared(elements, values, values')
            /\ i' = i + max_el
    /\ UNCHANGED <<endpoint, bbox, sandbox_elements, max_el, id_map, next_changeset,
                   next_id, submitted, orig, assigned>>

Next ==
    \/ Validate
    \/ FetchSandbox
    \/ Confirm
    \/ DeleteCaps
    \/ DeleteOpen
    \/ DeleteUpload
    \/ DeleteClose
    \/ FetchDonor
    \/ CreateCaps
    \/ CreateOpen
    \/ CreateUpload
    \/ CreateClose

Spec == Init /\ [][Next]_vars

(***************************************************************************)
(* download_from_api alone, on servers that answer the first box and its   *)
(* quadrants in every way, down to two splits.                             *)
(***************************************************************************)
\* Every box a fetch of the first box can ask for, down to two splits.
DeepBoxes ==
    AskedBoxes
    \cup UNION {{split_bbox(split_bbox(<<0, 0, 4, 4>>)[q])[j] : j \in 1..4} : q \in 1..4}

\* What a map response can hold.  Way 2 comes in two forms of the same key: a
\* way that crosses the border of two boxes is sent for both, and it may have
\* been edited between the two requests.
Bodies ==
    {<<>>,
     <<OsmObject("node", Str(2), <<>>, <<>>), OsmObject("way", Str(2), <<Str(2)>>, <<>>)>>,
     <<OsmObject("way", Str(2), <<Str(10)>>, <<>>), OsmObject("node", Str(10), <<>>, <<>>)>>}

\* The responses to a map request: the elements, 400 (too large), 509 (blocked),
\* another status, or requests.request raising.
MapResponses ==
    {Response("ok", 200, b) : b \in Bodies}
    \cup {Response("http", 400, <<>>), Response("http", 509, <<>>),
          Response("http", 500, <<>>), Response("net", 0, <<>>)}

\* What the j-th quadrant of a quadrant holds.
SubBody(j) ==
    CASE j = 1 -> <<OsmObject("node", Str(2), <<>>, <<>>)>>
      [] j = 2 -> <<OsmObject("way", Str(10), <<Str(2)>>, <<>>)>>
      [] j = 3 -> <<>>
      [] j = 4 -> <<OsmObject("node", Str(2), <<>>, <<>>),
                    OsmObject("relation", Str(2), <<>>, <<>>)>>

\* A server that answers every box with r.
UniformServer(r) == [b \in DeepBoxes |-> r]

\* A server that finds the first box too large, answers its q-th quadrant with
\* qs[q] and, where that is 400 again, the quadrants of that quadrant with
\* their elements.
SplittingServer(qs) ==
    [b \in DeepBoxes |->
        IF b = <<0, 0, 4, 4>> THEN Response("http", 400, <<>>)
        ELSE IF \E q \in 1..4 : split_bbox(<<0, 0, 4, 4>>)[q] = b
        THEN qs[CHOOSE q \in 1..4 : split_bbox(<<0, 0, 4, 4>>)[q] = b]
        ELSE Response("ok", 200,
                      SubBody(CHOOSE j \in 1..4 :
                                 \E q \in 1..4 :
                                     split_bbox(split_bbox(<<0, 0, 4, 4>>)[q])[j] = b))]

FetchServers ==
    {UniformServer(r) : r \in MapResponses \ {Response("http", 400, <<>>)}}
    \cup {SplittingServer(qs) : qs \in [1..4 -> MapResponses]}

InitFetch ==
    /\ pc = "download_from_api"
    /\ bbox = <<0, 0, 4, 4>>
    /\ endpoint \in FetchServers
    /\ sandbox_elements = <<>> /\ elements = <<>> /\ values = <<>> /\ max_el = 0 /\ i = 0
    /\ changeset = <<>> /\ upload_result = "none" /\ id_map = NoMap /\ next_changeset = 1
    /\ next_id = NoIds /\ log = <<>> /\ submitted = <<>> /\ orig = <<>> /\ assigned = <<>>
    /\ last_close = "none"

\* download_from_api(bbox, endpoint): what it returns or raises, and the map
\* requests it made, in order.
DownloadFromApi ==
    /\ pc = "download_from_api"
    /\ \E res \in {download_from_api(bbox, endpoint)} :
          /\ log' = [k \in 1..Len(res.requests) |->
                        Ev("map", "SANDBOX_API", "-", res.requests[k],
                           endpoint[res.requests[k]].out)]
          /\ sandbox_elements' = res.data
          /\ pc' = CASE res.kind = "data" -> "fetch_returned"
                     [] res.kind = "raise" -> "fetch_raised"
                     [] res.kind = "none" -> "fetch_returned_none"
    /\ UNCHANGED <<endpoint, bbox, elements, values, max_el, i, changeset, upload_result,
                   id_map, next_changeset, next_id, submitted, orig, assigned, last_close>>

NextFetch == DownloadFromApi

SpecFetch == InitFetch /\ [][NextFetch]_vars

(***************************************************************************)
(* The three filters of a fetched collection, alone (main does not call    *)
(* them): filter_by_bbox, delete_missing and delete_unreferenced_nodes, on *)
(* collections whose elements carry tags and coordinates.                  *)
(***************************************************************************)
\* An OsmObject with its tags, a list of (k, v), empty for an element without
\* tags, and its lon and lat: a str, or <<>> for None (the attribute is absent).
Tagged(el, tags, lon, lat) ==
    [type |-> el.type, id |-> el.id, nodes |-> el.nodes, members |-> el.members,
     tags |-> tags, lon |-> lon, lat |-> lat]

\* float(s) for the str of a whole number.
ParseFloat(s) == ParseInt(s)

\* OsmObject.is_inside(bbox)
is_inside(el, b) ==
    IF el.lon = <<>> \/ el.lat = <<>> THEN TRUE
    ELSE LET lon == ParseFloat(el.lon)
             lat == ParseFloat(el.lat)
         IN  lon >= b[1] /\ lon <= b[3] /\ lat >= b[2] /\ lat <= b[4]

\* filter_by_bbox(elements, bbox): del elements[sid] for an element outside the
\* box and for one that has a member of type relation.
filter_by_bbox(coll, b) ==
    SelectSeq(coll, LAMBDA el :
        /\ is_inside(el, b)
        /\ \A j \in 1..Len(el.members) : el.members[j][1] # "relation")

\* delete_missing(elements): with the ids of the nodes, a first loop deletes the
\* elements whose node list has a ref that is no node; with the ids of the ways
\* that are left, a second loop deletes those with a member of type node or way
\* that is not there.  Members of type relation are not looked at.
delete_missing(coll) ==
    LET nodes == {coll[k].id : k \in {n \in 1..Len(coll) : coll[n].type = "node"}}
        first == SelectSeq(coll, LAMBDA el :
                     \A j \in 1..Len(el.nodes) : el.nodes[j] \in nodes)
        ways == {first[k].id : k \in {n \in 1..Len(first) : first[n].type = "way"}}
    IN  SelectSeq(first, LAMBDA el :
            \A j \in 1..Len(el.members) :
                /\ ~(el.members[j][1] = "node" /\ el.members[j][2] \notin nodes)
                /\ ~(el.members[j][1] = "way" /\ el.members[j][2] \notin ways))

\* The set "nodes" the function builds: every ref of a node list and every ref
\* of a member of type node.
ReferencedNodes(coll) ==
    UNION {{coll[k].nodes[j] : j \in 1..Len(coll[k].nodes)}
           \cup {coll[k].members[j][2] :
                    j \in {n \in 1..Len(coll[k].members) : coll[k].members[n][1] = "node"}}
           : k \in 1..Len(coll)}

\* A variant that collects the refs of the node lists only.
delete_unreferenced_nodesIgnoringMembers(coll) ==
    LET nodes == UNION {{coll[k].nodes[j] : j \in 1..Len(coll[k].nodes)} : k \in 1..Len(coll)}
        deleted(el) == el.type = "node" /\ el.id \notin nodes /\ el.tags = <<>>
    IN  SelectSeq(coll, LAMBDA el : ~deleted(el))

\* delete_unreferenced_nodes(elements): del elements[sid] keeps the others in place.
delete_unreferenced_nodes(coll) ==
    LET nodes == ReferencedNodes(coll)
        deleted(el) == el.type = "node" /\ el.id \notin nodes /\ el.tags = <<>>
    IN  SelectSeq(coll, LAMBDA el : ~deleted(el))

\* The box of the filter: nodes at (1, 1) are inside, nodes at (9, 9) outside.
FilterBox == <<0, 0, 4, 4>>

\* The element el of a collection with the tag name=x or none, and a node inside
\* the box or outside it; ways and relations have no coordinates.
Filled(el, tagged, outside) ==
    Tagged(el, IF tagged THEN <<<<"name", "x">>>> ELSE <<>>,
           IF el.type # "node" THEN <<>> ELSE IF outside THEN Str(9) ELSE Str(1),
           IF el.type # "node" THEN <<>> ELSE IF outside THEN Str(9) ELSE Str(1))

\* The collections of the bounds whose references resolve, each with every
\* choice of the elements that carry a tag, all nodes inside the box; the same
\* without tags with every choice of the elements that lie outside; and the
\* lists in which an element refers to anything, present or not.
FilterCollections ==
    UNION {{[k \in 1..Len(c) |-> Filled(c[k], k \in T, FALSE)] : T \in SUBSET (1..Len(c))}
           \cup {[k \in 1..Len(c) |-> Filled(c[k], FALSE, k \in T)] : T \in SUBSET (1..Len(c))}
           : c \in ClosedCollections(MaxLen, MaxMembers, FALSE)}
    \cup {[k \in 1..Len(c) |-> Filled(c[k], FALSE, FALSE)] : c \in OpenLists(MaxLen, MaxMembers)}

InitFilter ==
    /\ pc = "filter_input"
    /\ elements \in FilterCollections
    /\ bbox = FilterBox
    /\ sandbox_elements = <<>> /\ values = <<>> /\ max_el = 0 /\ i = 0
    /\ changeset = <<>> /\ upload_result = "none" /\ id_map = NoMap /\ next_changeset = 1
    /\ next_id = NoIds /\ log = <<>> /\ submitted = <<>> /\ orig = <<>> /\ assigned = <<>>
    /\ last_close = "none" /\ endpoint = <<>>

\* filter_by_bbox(elements, bbox), as the first filter.
FilterByBbox ==
    /\ pc = "filter_input"
    /\ elements' = filter_by_bbox(elements, bbox)
    /\ pc' = "filter_missing"
    /\ UNCHANGED <<endpoint, bbox, sandbox_elements, values, max_el, i, changeset,
                   upload_result, id_map, next_changeset, next_id, log, submitted, orig,
                   assigned, last_close>>

\* delete_missing(elements), as the first filter or after filter_by_bbox.
DeleteMissing ==
    /\ pc \in {"filter_input", "filter_missing"}
    /\ elements' = delete_missing(elements)
    /\ pc' = "filter_nodes"
    /\ UNCHANGED <<endpoint, bbox, sandbox_elements, values, max_el, i, changeset,
                   upload_result, id_map, next_changeset, next_id, log, submitted, orig,
                   assigned, last_close>>

\* delete_unreferenced_nodes(elements), as the first filter or after the others,
\* and a second time; orig keeps the collection as the first call got it, values
\* the result of the first call.
DeleteUnreferencedNodes ==
    /\ pc \in {"filter_input", "filter_missing", "filter_nodes", "filter_once"}
    /\ elements' = delete_unreferenced_nodes(elements)
    /\ IF pc # "filter_once"
       THEN orig' = elements /\ values' = values /\ pc' = "filter_once"
       ELSE orig' = orig /\ values' = elements /\ pc' = "filter_twice"
    /\ UNCHANGED <<endpoint, bbox, sandbox_elements, max_el, i, changeset, upload_result,
                   id_map, next_changeset, next_id, log, submitted, assigned, last_close>>

NextFilter == FilterByBbox \/ DeleteMissing \/ DeleteUnreferencedNodes

SpecFilter == InitFilter /\ [][NextFilter]_vars

(***************************************************************************)
(* main under fair scheduling: main is one sequential thread, so a step    *)
(* that can be taken is taken.                                             *)
(***************************************************************************)
FairSpec == Init /\ [][Next]_vars /\ WF_vars(Next)

(***************************************************************************)
(* cli.  parse_args() runs AuthPromptAction for --auth, which calls        *)
(* read_auth; then the bbox text is split and converted and main is        *)
(* called.  The bbox argument is kept as the list of numbers its text      *)
(* denotes (float() is exact on the boxes of the model).                   *)
(***************************************************************************)
\* What the operator types at "Login: ": nothing, or a name ("me").
Logins == {<<>>, <<109, 101>>}

\* The turns read_auth's loop has taken: its user/details requests.
LoginsTried == Cardinality({p \in 1..Len(log) : log[p].op = "user/details"})

InitCli ==
    /\ pc = "cli"
    /\ bbox \in Boxes
    /\ sandbox_elements = <<>> /\ elements = <<>> /\ values = <<>> /\ max_el = 0 /\ i = 0
    /\ changeset = <<>> /\ upload_result = "none" /\ id_map = NoMap /\ next_changeset = 1
    /\ next_id = NoIds /\ log = <<>> /\ submitted = <<>> /\ orig = <<>> /\ assigned = <<>>
    /\ last_close = "none" /\ endpoint = <<>>

\* One turn of read_auth's loop: an empty login is sys.exit(0); otherwise GET
\* user/details with the header.  A result with children ends the loop, an
\* HTTPError or an empty result asks again, any other exception leaves cli.
ReadAuth ==
    /\ pc = "cli"
    /\ LoginsTried < MaxLogins
    /\ \E login \in Logins :
          IF login = <<>>
          THEN /\ log' = Append(log, Ev("input", "-", "-", login, "-"))
               /\ pc' = "exit0"
          ELSE \E out \in Outcomes, found \in BOOLEAN :
                  /\ out # "ok" => ~found
                  /\ log' = log \o <<Ev("input", "-", "-", login, "-"),
                                      Ev("user/details", "SANDBOX_API", "-", <<>>, out)>>
                  /\ pc' = IF out = "net" THEN "error"
                           ELSE IF found THEN "cli_bbox" ELSE "cli"
    /\ UNCHANGED <<endpoint, bbox, sandbox_elements, elements, values, max_el, i, changeset,
                   upload_result, id_map, next_changeset, next_id, submitted, orig,
                   assigned, last_close>>

\* cli: bbox = [float(x.strip()) for x in args.bbox.split(',')] and the call of main.
CliMain ==
    /\ pc = "cli_bbox"
    /\ pc' = "main"
    /\ UNCHANGED <<endpoint, bbox, sandbox_elements, elements, values, max_el, i, changeset,
                   upload_result, id_map, next_changeset, next_id, log, submitted, orig,
                   assigned, last_close>>

\* cli up to the first request of main.
NextCli == ReadAuth \/ CliMain \/ Validate \/ FetchSandbox

SpecCli == InitCli /\ [][NextCli]_vars

(***************************************************************************)
(* Claims on renumber_for_creating (SpecRenumber).                         *)
(***************************************************************************)
\* The positions of the list lst that hold the element (type, id).
PositionsOf(lst, type, id) == {m \in 1..Len(lst) : lst[m].type = type /\ lst[m].id = id}

\* C5: renumber_for_creating gives the k-th element of a list with distinct
\* (type, id) the id -k, so the ids are exactly -1..-n, distinct across all types;
\* a reference to the (type, old id) of the m-th element becomes -m, and a
\* reference to an element that is not in the list is left as it was.
C5_PlaceholdersAssignedAndReferencesRewritten ==
    pc = "renumber_done" =>
        /\ Len(values) = Len(orig)
        /\ \A k \in 1..Len(values) :
              /\ values[k].type = orig[k].type
              /\ ParseInt(values[k].id) = 0 - k
              /\ Len(values[k].nodes) = Len(orig[k].nodes)
              /\ Len(values[k].members) = Len(orig[k].members)
              /\ \A j \in 1..Len(orig[k].nodes) :
                    LET ref == orig[k].nodes[j]
                        at == PositionsOf(orig, "node", ref)
                    IN  IF at = {} THEN values[k].nodes[j] = ref
                        ELSE \A m \in at : ParseInt(values[k].nodes[j]) = 0 - m
              /\ \A j \in 1..Len(orig[k].members) :
                    LET mem == orig[k].members[j]
                        at == PositionsOf(orig, mem[1], mem[2])
                    IN  /\ values[k].members[j][1] = mem[1]
                        /\ values[k].members[j][3] = mem[3]
                        /\ IF at = {} THEN values[k].members[j][2] = mem[2]
                           ELSE \A m \in at : ParseInt(values[k].members[j][2]) = 0 - m
        /\ Cardinality({values[k].id : k \in 1..Len(values)}) = Len(values)
        /\ {ParseInt(values[k].id) : k \in 1..Len(values)} = {0 - k : k \in 1..Len(values)}

\* C5 witness: a renumbered list of several elements in which a relation refers
\* both to an element of the list and to one that is not in it.
C5_Witness ==
    /\ pc = "renumber_done"
    /\ Len(orig) >= 3
    /\ \E k \in 1..Len(orig) :
          /\ orig[k].type = "relation"
          /\ \E j \in 1..Len(orig[k].members) :
                PositionsOf(orig, orig[k].members[j][1], orig[k].members[j][2]) # {}
          /\ \E j \in 1..Len(orig[k].members) :
                PositionsOf(orig, orig[k].members[j][1], orig[k].members[j][2]) = {}

(***************************************************************************)
(* Claims on the submission orders (SpecOrder).                            *)
(***************************************************************************)
\* The kind ranks of a list never decrease (ascending) or never increase.
RanksAscend(lst) ==
    \A a, b \in 1..Len(lst) : a < b => SORT_ORDER[lst[a].type] <= SORT_ORDER[lst[b].type]
RanksDescend(lst) ==
    \A a, b \in 1..Len(lst) : a < b => SORT_ORDER[lst[a].type] >= SORT_ORDER[lst[b].type]

\* The batches delete_elements handed to upload_delete, and those upload_elements
\* handed to upload_create after them.
OrderDeleted == SubSeq(submitted, 1, Len(LoopBatches(orig, 0, max_el)))
OrderCreated == SubSeq(submitted, Len(LoopBatches(orig, 0, max_el)) + 1, Len(submitted))

\* C7: the sequence in which delete_elements submits a collection is the exact
\* reverse of the sequence in which upload_elements submits it; relations are
\* deleted before ways and ways before nodes, and created in the opposite order.
C7_DeleteOrderIsReverseOfCreateOrder ==
    pc = "order_done" =>
        /\ Flatten(OrderDeleted) = Reverse(orig)
        /\ RanksDescend(Flatten(OrderDeleted))
        /\ RanksAscend(orig)
        /\ Len(values) = Len(orig)
        /\ Len(Flatten(OrderCreated)) = Len(orig)
        /\ \A k \in 1..Len(orig) :
              /\ Flatten(OrderCreated)[k].type = orig[k].type
              /\ ParseInt(Flatten(OrderCreated)[k].id) = 0 - k

\* C7 witness: both orders computed for three elements of two kinds, two of them
\* of the same kind, deleted in more than one batch.
C7_Witness ==
    /\ pc = "order_done"
    /\ Len(orig) = 3
    /\ Len(OrderDeleted) >= 2
    /\ Len(OrderCreated) >= 2
    /\ \E a, b \in 1..3 : orig[a].type = orig[b].type /\ orig[a].id # orig[b].id
    /\ \E a, b \in 1..3 : orig[a].type # orig[b].type

(***************************************************************************)
(* Claims on the run of main (Spec).                                       *)
(***************************************************************************)
Events == 1..Len(log)

\* The run is inside a with Uploader(...) block: between __enter__ and __exit__.
InScope == pc \in {"delete_upload", "delete_close", "create_upload", "create_close"}

\* The events of one operation on the changeset c.
EventsOn(op, c) == {p \in Events : log[p].op = op /\ log[p].arg = c}

\* The changeset opened at event p is the one whose scope the run is inside.
IsOpenScope(p) == InScope /\ \A q \in Events : log[q].op = "open" => q <= p

\* C1: a changeset that was opened gets exactly one close request, after its upload
\* call and before any later changeset is opened, whether the upload succeeded or
\* failed; a failed open is followed by no upload and no close.
C1_EveryOpenedChangesetIsClosedOnce ==
    \A p \in Events :
        log[p].op = "open" =>
            IF log[p].out = "ok"
            THEN LET uploads == EventsOn("upload", log[p].arg)
                     closes == EventsOn("close", log[p].arg)
                 IN  /\ Cardinality(uploads) <= 1
                     /\ \A u \in uploads : p < u
                     /\ \A k \in closes : \E u \in uploads : u < k
                     /\ IF IsOpenScope(p)
                        THEN closes = {}
                        ELSE /\ Cardinality(closes) = 1
                             /\ \A k \in closes : \A q \in Events :
                                   (q > p /\ log[q].op = "open") => k < q
            ELSE p = Len(log) /\ pc = "error"

\* C1 witness: an upload failed and the close request of its changeset was still
\* issued, after a first batch that went through.
C1_Witness ==
    /\ Len(log) >= 2
    /\ log[Len(log)].op = "close"
    /\ log[Len(log) - 1].op = "upload"
    /\ log[Len(log) - 1].out # "ok"
    /\ log[Len(log)].arg = log[Len(log) - 1].arg
    /\ Len(submitted) >= 2

\* The (type, id) pairs of the elements submitted by the running loop, in order.
SubmittedKeys == LET flat == Flatten(submitted)
                 IN  [k \in 1..Len(flat) |-> <<flat[k].type, flat[k].id>>]

\* C2: once an open or an upload has failed, the only request that follows is the
\* close of that same changeset and the run ends with an error: no later changeset,
\* no donor fetch, no create; and no element is ever submitted twice.
C2_FailedOpenOrUploadEndsTheRun ==
    /\ \A p \in Events :
          (log[p].op \in {"open", "upload"} /\ log[p].out # "ok") =>
              /\ \A q \in (p + 1)..Len(log) : log[q].op = "close" /\ log[q].arg = log[p].arg
              /\ Len(log) <= p + 1
              /\ pc \in {"error", "delete_close", "create_close"}
              /\ (pc # "error") => (p = Len(log) /\ log[p].op = "upload")
    /\ LET keys == SubmittedKeys
       IN  \A a \in 1..Len(keys) : \A b \in (a + 1)..Len(keys) : keys[a] # keys[b]
    /\ \A p \in Events :
          log[p].op = "upload" =>
              \A q \in (p + 1)..Len(log) : log[q].op = "upload" => log[p].arg # log[q].arg

\* C2 witness: the upload of a delete batch failed, the close of its changeset
\* failed too, batches were left, and the run has ended with an error.
C2_Witness ==
    /\ pc = "error"
    /\ Len(log) >= 2
    /\ log[Len(log)].op = "close"
    /\ log[Len(log)].kind = "delete"
    /\ log[Len(log) - 1].op = "upload"
    /\ log[Len(log) - 1].out # "ok"
    /\ last_close = "http"
    /\ Len(Flatten(submitted)) < Len(values)

\* The last two requests were a successful upload and a close that failed.
CloseFailedAfterUpload ==
    /\ Len(log) >= 2
    /\ log[Len(log)].op = "close"
    /\ log[Len(log) - 1].op = "upload"
    /\ log[Len(log) - 1].out = "ok"
    /\ last_close # "ok"

\* C3: a close request that fails after a successful upload does not abort the
\* run: the id mapping of the upload is applied to the working set and the loop
\* goes on with the next batch, if any is left.
C3_FailedCloseNeverAborts ==
    CloseFailedAfterUpload =>
        /\ pc # "error"
        /\ i = max_el * Len(submitted)
        /\ pc = IF log[Len(log)].kind = "delete"
                THEN (IF i < Len(values) THEN "delete_open" ELSE "fetch_donor")
                ELSE (IF i < Len(values) THEN "create_open" ELSE "done")
        /\ log[Len(log)].kind = "create" =>
              \A k \in 1..Len(values) : assigned[k] # <<>> => values[k].id = assigned[k]

\* The run is in upload_elements or past it: the history of submitted batches is
\* that of the create loop.
InCreate == \E p \in Events : log[p].op = "capabilities" /\ log[p].server = "OSM_API"

\* The position in the working list of the p-th element of the b-th batch.
PositionIn(b, p) == max_el * (b - 1) + p

\* The (type, id) pairs the element el refers to.
ReferencesOf(el) ==
    {<<"node", el.nodes[j]>> : j \in 1..Len(el.nodes)}
    \cup {<<el.members[j][1], el.members[j][2]>> : j \in 1..Len(el.members)}

\* The reference el holds in place of the original reference (type, ref) of its
\* original form el0, wherever el0 holds that reference.
HeldFor(el, el0, type, ref) ==
    {el.nodes[j] : j \in {n \in 1..Len(el0.nodes) : type = "node" /\ el0.nodes[n] = ref}}
    \cup {el.members[j][2] : j \in {n \in 1..Len(el0.members) :
                                       el0.members[n][1] = type /\ el0.members[n][2] = ref}}

\* C4: once the id mapping returned by a create batch is applied, no id and no
\* reference of the working set is a placeholder the mapping covers; so in every
\* batch submitted later, a reference to an element uploaded in an earlier batch
\* is the id the server returned for that element.
C4_NoCoveredPlaceholderSurvives ==
    InCreate =>
        /\ pc \in {"create_open", "create_upload", "done"} =>
              \A k \in 1..Len(values) :
                  /\ <<values[k].type, values[k].id>> \notin DOMAIN id_map
                  /\ ReferencesOf(values[k]) \cap DOMAIN id_map = {}
        /\ \A b \in 1..Len(submitted) : \A p \in 1..Len(submitted[b]) :
              \A m \in 1..(max_el * (b - 1)) :
                  \A held \in HeldFor(submitted[b][p], orig[PositionIn(b, p)],
                                      orig[m].type, orig[m].id) :
                      assigned[m] # <<>> /\ held = assigned[m]

\* C4 witness: a second batch was submitted in which a way lists a node that
\* was uploaded in the first batch, after the mapping of the first was applied.
C4_Witness ==
    /\ InCreate
    /\ pc = "create_close"
    /\ Len(submitted) = 2
    /\ \E p \in 1..Len(submitted[2]) : \E m \in 1..max_el :
          /\ submitted[2][p].type = "way"
          /\ orig[m].type = "node"
          /\ HeldFor(submitted[2][p], orig[PositionIn(2, p)], "node", orig[m].id) # {}

\* A reference (type, ref) submitted in the b-th batch resolves: to an element of
\* the same batch, or to an id the server assigned in an earlier batch.
Resolves(b, type, ref) ==
    \/ \E p \in 1..Len(submitted[b]) :
          submitted[b][p].type = type /\ submitted[b][p].id = ref
    \/ \E m \in 1..(max_el * (b - 1)) : orig[m].type = type /\ assigned[m] = ref

\* C6: when a create batch is submitted, every reference of its elements resolves
\* to an element of the same batch or to an id the server has already assigned;
\* none is the placeholder of an element that is uploaded in a later batch.
C6_SubmittedReferencesResolve ==
    InCreate =>
        \A b \in 1..Len(submitted) : \A p \in 1..Len(submitted[b]) :
            \A r \in ReferencesOf(submitted[b][p]) : Resolves(b, r[1], r[2])

\* The number of batches of at most c elements that hold n elements: ceil(n / c).
Ceil(n, c) == (n + c - 1) \div c

\* The collection the donor fetch returned, as the history has it: elements itself
\* holds the renumbered objects once upload_elements has started.
DonorFetched ==
    LET p == CHOOSE q \in Events : log[q].op = "interpreter"
    IN  DictUpdate(<<>>, log[p].arg)

\* The open requests of the delete loop or of the create loop.
OpensOf(kind) == {p \in Events : log[p].op = "open" /\ log[p].kind = kind}

\* C8: with a capacity c >= 1, delete_elements and upload_elements each open
\* ceil(n / c) changesets for n elements; the batches are consecutive slices of
\* the sorted list with 1..c elements each, every element in exactly one of them;
\* an empty destination gets no delete batch and no changeset.
C8_BatchesAreConsecutiveSlices ==
    /\ \A b \in 1..Len(submitted) :
          /\ Len(submitted[b]) >= 1
          /\ Len(submitted[b]) <= max_el
          /\ b < Len(submitted) => Len(submitted[b]) = max_el
    /\ (~InCreate /\ submitted # <<>>) =>
          Flatten(submitted) = SubSeq(values, 1, Len(Flatten(submitted)))
    /\ (InCreate /\ submitted # <<>>) =>
          /\ Len(Flatten(submitted)) <= Len(orig)
          /\ \A k \in 1..Len(Flatten(submitted)) :
                /\ Flatten(submitted)[k].type = orig[k].type
                /\ ParseInt(Flatten(submitted)[k].id) = 0 - k
    /\ (pc = "fetch_donor" /\ sandbox_elements # <<>> /\ max_el >= 1) =>
          /\ Cardinality(OpensOf("delete")) = Ceil(Len(sandbox_elements), max_el)
          /\ Len(submitted) = Ceil(Len(sandbox_elements), max_el)
          /\ Flatten(submitted) = SortValues(sandbox_elements, TRUE)
    /\ (pc = "done" /\ max_el >= 1) =>
          /\ Cardinality(OpensOf("create")) = Ceil(Len(DonorFetched), max_el)
          /\ Len(submitted) = Ceil(Len(DonorFetched), max_el)
          /\ Len(Flatten(submitted)) = Len(DonorFetched)
          /\ orig = SortValues(DonorFetched, FALSE)
    /\ (pc = "fetch_donor" /\ sandbox_elements = <<>>) =>
          /\ OpensOf("delete") = {}
          /\ submitted = <<>>
          /\ \A p \in Events : log[p].op \notin {"upload", "close", "capabilities"}

\* C8 witness: a run that deleted with a capacity of 2 in two batches, the last
\* one not full, and created two elements with a capacity of 1 in two batches.
C8_Witness ==
    /\ pc = "done"
    /\ Len(elements) = 2
    /\ max_el = 1
    /\ Len(submitted) = 2
    /\ Cardinality(OpensOf("delete")) = 2
    /\ \E p \in Events :
          /\ log[p].op = "capabilities"
          /\ log[p].server = "SANDBOX_API"
          /\ log[p].arg = Str(2)

\* The answer is "yes" in any mix of upper and lower case.
IsYes(answer) ==
    /\ Len(answer) = 3
    /\ answer[1] \in {121, 89}
    /\ answer[2] \in {101, 69}
    /\ answer[3] \in {115, 83}

\* C9: the operator is asked exactly when the sandbox fetch returned more elements
\* than the threshold; an answer other than "yes" (in any case) ends the run with
\* exit code 0 before any changeset, upload or donor fetch; with a "yes", or
\* without a question, the run goes on to the deletion.
C9_DeclinedConfirmationExitsCleanly ==
    /\ pc = "confirm" => Len(sandbox_elements) > SafetyThreshold
    /\ pc # "confirm" =>
          ((\E p \in Events : log[p].op = "input") <=> Len(sandbox_elements) > SafetyThreshold)
    /\ \A p \in Events :
          log[p].op = "input" =>
              /\ p = 2
              /\ log[1].op = "map"
              /\ IF IsYes(log[p].arg)
                 THEN /\ pc # "exit0"
                      /\ Len(log) = 2 => pc = "delete_elements"
                 ELSE pc = "exit0" /\ Len(log) = 2
    /\ pc = "exit0" => Len(log) = 2 /\ log[2].op = "input" /\ ~IsYes(log[2].arg)
    /\ (Len(log) = 1 /\ log[1].op = "map" /\ log[1].out = "data"
        /\ Len(sandbox_elements) <= SafetyThreshold) =>
          pc = IF sandbox_elements = <<>> THEN "fetch_donor" ELSE "delete_elements"

\* C9 witness: the operator declined and the run has exited.
C9_Witness ==
    /\ pc = "exit0"
    /\ Len(sandbox_elements) = SafetyThreshold + 1
    /\ log[2].arg = <<110, 111>>

\* The stage of main an event belongs to.
Stage(e) ==
    CASE e.op = "map" -> 1
      [] e.op = "input" -> 2
      [] e.op = "capabilities" /\ e.server = "SANDBOX_API" -> 3
      [] e.op \in {"open", "upload", "close"} /\ e.kind = "delete" -> 3
      [] e.op \in {"interpreter", "status"} -> 4
      [] e.op = "capabilities" /\ e.server = "OSM_API" -> 5
      [] e.op \in {"open", "upload", "close"} /\ e.kind = "create" -> 5

\* Every changeset opened for deletion before event p was closed before p.
DeletesClosedBefore(p) ==
    \A d \in 1..(p - 1) :
        (log[d].op = "open" /\ log[d].kind = "delete" /\ log[d].out = "ok") =>
            \E k \in (d + 1)..(p - 1) : log[k].op = "close" /\ log[k].arg = log[d].arg

\* C10: main fetches the destination, then runs the delete batches, each closed,
\* then fetches the donor, then runs the create batches; no create changeset is
\* opened before the last delete changeset is closed; an empty donor fetch ends
\* the run normally without any create changeset.
C10_StagesRunInOrder ==
    /\ \A p \in 1..(Len(log) - 1) : Stage(log[p]) <= Stage(log[p + 1])
    /\ log # <<>> => log[1].op = "map"
    /\ Cardinality({p \in Events : log[p].op = "map"}) <= 1
    /\ Cardinality({p \in Events : log[p].op = "interpreter"}) <= 1
    /\ \A p \in Events :
          log[p].op = "interpreter" => DeletesClosedBefore(p)
    /\ \A p \in Events :
          (log[p].op = "open" /\ log[p].kind = "create") =>
              /\ DeletesClosedBefore(p)
              /\ \E f \in 1..(p - 1) : log[f].op = "interpreter" /\ log[f].out = "ok"
    /\ pc = "no_elements" => elements = <<>> /\ ~InCreate /\ OpensOf("create") = {}
    /\ (log # <<>> /\ log[Len(log)].op = "interpreter" /\ log[Len(log)].out = "ok"
        /\ elements = <<>>) => pc = "no_elements"

\* C10 witness: a run that deleted in two batches, fetched the donor and created
\* in two batches.
C10_Witness ==
    /\ pc = "done"
    /\ Cardinality(OpensOf("delete")) >= 2
    /\ Cardinality(OpensOf("create")) >= 2

(***************************************************************************)
(* Claims on cli (SpecCli).                                                *)
(***************************************************************************)
\* main rejects the box b: not four numbers, or too big once min and max are
\* in order.
Rejected(b) == Len(b) # 4 \/ TooBig(Normalized(b))

\* The requests of the run: every event of the history but the prompts.
Requests == {p \in 1..Len(log) : log[p].op # "input"}

\* C11: a box that is not four numbers, or whose area after the swaps exceeds
\* 0.01 square degrees, ends the run with an error before any request is made;
\* a box of at most 0.01 square degrees is accepted with min <= max on both axes.
C11_InvalidBoxRejectedBeforeAnyRequest ==
    /\ Rejected(bbox) => Requests = {}
    /\ (Rejected(bbox) /\ pc \notin {"cli", "cli_bbox", "main", "exit0"}) => pc = "error"
    /\ (~Rejected(bbox) /\ pc \notin {"cli", "cli_bbox", "main", "exit0", "error"}) =>
          bbox[1] <= bbox[3] /\ bbox[2] <= bbox[4]
    /\ (~Rejected(bbox) /\ pc = "error") => Requests # {}

(***************************************************************************)
(* Claims on download_from_api (SpecFetch).                                *)
(***************************************************************************)
\* download_from_api has ended, one way or another.
FetchEnded == pc \in {"fetch_returned", "fetch_raised", "fetch_returned_none"}

\* The response to the p-th request of the fetch.
ResponseTo(p) == endpoint[log[p].arg]

\* The p-th request was answered with status 400.
Refused(p) == ResponseTo(p).out = "http" /\ ResponseTo(p).code = 400

\* C12: download_from_api never returns without a collection: when a request is
\* answered with a status that is neither 200 nor 400, the fetch raises.
C12_FetchNeverReturnsWithoutCollection ==
    /\ pc # "fetch_returned_none"
    /\ (FetchEnded /\ \E p \in 1..Len(log) :
                         ResponseTo(p).out = "http" /\ ResponseTo(p).code # 400) =>
          pc = "fetch_raised"

\* The requests whose response was a success and holds an element with el's key.
HoldersOf(el) ==
    {p \in 1..Len(log) :
        /\ ResponseTo(p).out = "ok"
        /\ \E m \in 1..Len(ResponseTo(p).body) : SameKey(ResponseTo(p).body[m], el)}

\* C13: when several sub-fetches return the same (type, id), the merged collection
\* holds the element of the earliest of them.
C13_MergeKeepsEarlierElement ==
    pc = "fetch_returned" =>
        \A k \in 1..Len(sandbox_elements) :
            \E p \in HoldersOf(sandbox_elements[k]) :
                /\ \A q \in HoldersOf(sandbox_elements[k]) : p <= q
                /\ \E m \in 1..Len(ResponseTo(p).body) :
                      ResponseTo(p).body[m] = sandbox_elements[k]

\* The four quadrants of the box b.
QuadrantsOf(b) ==
    LET mx == (b[1] + b[3]) \div 2
        my == (b[2] + b[4]) \div 2
    IN  {<<b[1], b[2], mx, my>>, <<b[1], my, mx, b[4]>>,
         <<mx, b[2], b[3], my>>, <<mx, my, b[3], b[4]>>}

\* The requests made for the box b.
AskedAt(b) == {p \in 1..Len(log) : log[p].arg = b}

\* Every request answered with 400 was followed by exactly one request for each
\* quadrant of its box.
EveryRefusedRequestSplit ==
    \A p \in 1..Len(log) :
        Refused(p) =>
            \A q \in QuadrantsOf(log[p].arg) :
                Cardinality(AskedAt(q)) = 1 /\ \A a \in AskedAt(q) : p < a

\* The (type, id) pairs of a list of elements.
KeysOf(lst) == {<<lst[m].type, lst[m].id>> : m \in 1..Len(lst)}

\* C14 as stated: at the end of every fetch, each request answered with 400 has
\* been followed by exactly one sub-request for each of its four quadrants.
C14_EveryRefusedRequestIsSplitInFour ==
    FetchEnded => EveryRefusedRequestSplit

\* C14, for a fetch that returns a collection: each request answered with 400 was
\* followed by exactly one sub-request per quadrant, recursively, and by nothing
\* else; the keys of the result are the union of the keys of the successful
\* responses, none twice; a first 400 with four successful quadrants makes
\* exactly four sub-fetches.
C14_ReturnedFetchSplitEveryRefusedRequest ==
    pc = "fetch_returned" =>
        /\ EveryRefusedRequestSplit
        /\ log[1].arg = bbox /\ AskedAt(bbox) = {1}
        /\ \A p \in 2..Len(log) :
              \E r \in 1..(p - 1) : Refused(r) /\ log[p].arg \in QuadrantsOf(log[r].arg)
        /\ \A p \in 1..Len(log) : Refused(p) \/ ResponseTo(p).out = "ok"
        /\ KeysOf(sandbox_elements) =
              UNION {KeysOf(ResponseTo(p).body) : p \in {q \in 1..Len(log) : ~Refused(q)}}
        /\ Cardinality(KeysOf(sandbox_elements)) = Len(sandbox_elements)
        /\ (Refused(1) /\ \A p \in 2..Len(log) : ~Refused(p)) => Len(log) = 5

\* C14 witness: a fetch that returned after splitting the first box and one of
\* its quadrants again, with keys sent by more than one response.
C14_Witness ==
    /\ pc = "fetch_returned"
    /\ Len(log) = 9
    /\ \E p \in 2..Len(log) : Refused(p)
    /\ \E k \in 1..Len(sandbox_elements) :
          Cardinality(HoldersOf(sandbox_elements[k])) >= 2

(***************************************************************************)
(* Claims on get_changeset_size and the ids of the create pipeline (Spec). *)
(***************************************************************************)
\* The latest request is a capabilities request that was answered with status 200.
CapabilitiesAnswered ==
    /\ log # <<>>
    /\ log[Len(log)].op = "capabilities"
    /\ log[Len(log)].out = "ok"

\* C15: get_changeset_size returns the advertised maximum_elements when the
\* response carries it, and the fallback, without raising, when it does not.
C15_CapacityIsAdvertisedOrFallback ==
    CapabilitiesAnswered =>
        IF log[Len(log)].arg # <<>>
        THEN max_el = ParseInt(log[Len(log)].arg)
        ELSE pc # "error" /\ max_el = FallbackSize

\* No two elements of lst of the same type have the same id.
DistinctPerKind(lst) ==
    \A a \in 1..Len(lst) : \A b \in (a + 1)..Len(lst) :
        lst[a].type = lst[b].type => lst[a].id # lst[b].id

\* C16: in the create pipeline no two elements of one type share an id: in the
\* fetched collection, in the sorted list, after the placeholders are assigned
\* and after the id mapping of each batch is applied.
C16_IdsUniquePerKind ==
    /\ DistinctPerKind(elements)
    /\ InCreate => DistinctPerKind(orig) /\ DistinctPerKind(values)

\* C16 witness: between two batches the working list holds, for one type, an
\* element with the id the server returned and one that still has its placeholder.
C16_Witness ==
    /\ pc = "create_open"
    /\ i > 0
    /\ \E a, b \in 1..Len(values) :
          /\ values[a].type = values[b].type
          /\ ParseInt(values[a].id) > 0
          /\ ParseInt(values[b].id) < 0

\* The capacity a capabilities response stands for.
CapacityAt(p) == IF log[p].arg = <<>> THEN FallbackSize ELSE ParseInt(log[p].arg)

\* C19: no batch submitted to the sandbox, delete or create, holds more elements
\* than the sandbox advertised as its maximum (or the fallback).
C19_BatchesFitSandboxCapacity ==
    \A p \in Events :
        (log[p].op = "capabilities" /\ log[p].server = "SANDBOX_API" /\ log[p].out = "ok") =>
            \A b \in 1..Len(submitted) : Len(submitted[b]) <= CapacityAt(p)

(***************************************************************************)
(* Claims on delete_unreferenced_nodes (SpecFilter).                       *)
(***************************************************************************)
\* el is a node without tags that no way lists and no relation has as a member
\* of type node.
BareUnreferencedNode(el, coll) ==
    /\ el.type = "node"
    /\ el.tags = <<>>
    /\ \A k \in 1..Len(coll) :
          /\ coll[k].type = "way" => \A j \in 1..Len(coll[k].nodes) : coll[k].nodes[j] # el.id
          /\ coll[k].type = "relation" =>
                \A j \in 1..Len(coll[k].members) :
                    ~(coll[k].members[j][1] = "node" /\ coll[k].members[j][2] = el.id)

\* C17: delete_unreferenced_nodes removes exactly the nodes without tags that no
\* way lists and no relation has as a node member, and keeps every other
\* element, in place; a second application changes nothing.
C17_UnreferencedBareNodesRemovedOnce ==
    /\ pc \in {"filter_once", "filter_twice"} =>
          LET first == IF pc = "filter_once" THEN elements ELSE values
          IN  first = SelectSeq(orig, LAMBDA el : ~BareUnreferencedNode(el, orig))
    /\ pc = "filter_twice" => elements = values

\* C17 witness: applied twice to a collection of which it removed a node and
\* kept a node without tags that only a relation refers to.
C17_Witness ==
    /\ pc = "filter_twice"
    /\ Len(elements) < Len(orig)
    /\ \E k \in 1..Len(elements) :
          /\ elements[k].type = "node"
          /\ elements[k].tags = <<>>
          /\ \A m \in 1..Len(orig) : \A j \in 1..Len(orig[m].nodes) :
                orig[m].nodes[j] # elements[k].id

(***************************************************************************)
(* Claims on the create order (SpecOrder).                                 *)
(***************************************************************************)
\* C18: upload_elements creates in ascending (rank, id) order with the ids
\* compared as integers: within a type the numerically smaller id comes first
\* and gets the earlier placeholder.
C18_CreateOrderIsNumeric ==
    pc = "order_done" =>
        \A a \in 1..Len(orig) : \A b \in (a + 1)..Len(orig) :
            /\ SORT_ORDER[orig[a].type] <= SORT_ORDER[orig[b].type]
            /\ orig[a].type = orig[b].type => ParseInt(orig[a].id) < ParseInt(orig[b].id)
            /\ ParseInt(Flatten(OrderCreated)[a].id) > ParseInt(Flatten(OrderCreated)[b].id)

(***************************************************************************)
(* Claims on main under fair scheduling (FairSpec).                        *)
(***************************************************************************)
\* A request of the run has failed.
RequestFailed ==
    \/ \E p \in Events : log[p].out \in {"http", "net", "raise", "none"}
    \/ last_close \in {"http", "net"}

\* get_changeset_size gave no capacity (it raised on a response without the
\* attribute), or one below 1.
CapacityUnusable ==
    \E p \in Events :
        /\ log[p].op = "capabilities"
        /\ log[p].out = "ok"
        /\ IF log[p].arg = <<>> THEN p = Len(log) /\ pc = "error"
           ELSE ParseInt(log[p].arg) < 1

\* The operator was asked and did not answer "yes".
Declined == pc = "exit0"

\* main has printed "Done.": every element of the donor fetch was submitted in
\* exactly one create batch and holds the id the server returned for it, and
\* every changeset that was opened has been closed.
DoneWithEverythingUploaded ==
    /\ pc = "done"
    /\ Len(orig) = Len(DonorFetched)
    /\ KeysOf(orig) = KeysOf(DonorFetched)
    /\ KeysOf(elements) = KeysOf(values)
    /\ LET flat == Flatten(submitted)
       IN  /\ Len(flat) = Len(orig)
           /\ \A k \in 1..Len(flat) :
                 flat[k].type = orig[k].type /\ ParseInt(flat[k].id) = 0 - k
    /\ \A k \in 1..Len(orig) :
          /\ assigned[k] # <<>>
          /\ values[k].type = orig[k].type
          /\ values[k].id = assigned[k]
    /\ \A p \in Events :
          (log[p].op = "open" /\ log[p].out = "ok") =>
              \E k \in (p + 1)..Len(log) : log[k].op = "close" /\ log[k].arg = log[p].arg

\* C20 as stated: unless a request fails, the capacity is unusable or the operator
\* declines, main eventually prints "Done." with everything uploaded.
C20_EverySuccessfulRunPrintsDone ==
    <>(RequestFailed \/ CapacityUnusable \/ Declined \/ DoneWithEverythingUploaded)

\* C20, for a box that main accepts: unless a request fails, the capacity is
\* unusable or the operator declines, main eventually either returns because the
\* donor fetch was empty or prints "Done." with every donor element submitted in
\* exactly one create batch, holding its server id, and every changeset closed.
C20_AcceptedRunWithDonorElementsPrintsDone ==
    <>(\/ RequestFailed \/ CapacityUnusable \/ Declined
       \/ Rejected(bbox)
       \/ pc = "no_elements"
       \/ DoneWithEverythingUploaded)

\* C20 witness: a run that deleted, then created two elements in two batches
\* and printed "Done.".
C20_Witness ==
    /\ DoneWithEverythingUploaded
    /\ ~RequestFailed
    /\ Len(elements) = 2
    /\ Len(submitted) = 2
    /\ \E p \in Events : log[p].op = "upload" /\ log[p].kind = "delete"

====
